---- MODULE Spec2Model ----
(***************************************************************************)
(* Model of the `spez!` procedural macro (src/src/lib.rs).                 *)
(*                                                                         *)
(* One behaviour follows one macro invocation from the parsed arguments    *)
(* (`Args`) through `spez_impl` (one loop iteration per arm, then the      *)
(* final `quote!`), through the resolution of the emitted `.spez()` method *)
(* call (Rust's method-call lookup: the candidate receiver types are the   *)
(* call's receiver dereferenced 0, 1, 2, ... times, and for each of them   *)
(* the receiver is tried by value, then behind `&`, then behind `&mut`),   *)
(* to the execution of the emitted block (the holder is built, the        *)
(* selected `spez` method takes the value and runs the arm's body).        *)
(*                                                                         *)
(* Reference layers are sequences of "&" / "&mut", outermost first.        *)
(***************************************************************************)
EXTENDS Integers, Sequences, FiniteSets, TLC

\* Bounds of the model.
MaxArms == 3      \* longest arm list explored
MaxObj == 1       \* largest initial value of the field of `my_object`

None == "None"    \* Option::None
Unit == "()"      \* the unit type and its value

----------------------------------------------------------------------------
(* The inputs: types, subject expressions, arms.                           *)

\* Concrete types a subject can have, with the traits they implement.
I32 == [name |-> "i32", traits |-> {"Debug"}, abstract |-> FALSE]
NoDebugType == [name |-> "NoDebugType", traits |-> {}, abstract |-> FALSE]
RefI32 == [name |-> "&i32", traits |-> {"Debug"}, abstract |-> FALSE]
MutMyStruct1 == [name |-> "&mut MyStruct1", traits |-> {"Increment"}, abstract |-> FALSE]
MutMyStruct2 == [name |-> "&mut MyStruct2", traits |-> {}, abstract |-> FALSE]

\* The type parameter `T` of an enclosing generic function `fn f<T: bounds>(v: T)`:
\* inside the function only the declared bounds are known of it.
TypeParam(bounds) == [name |-> "T", traits |-> bounds, abstract |-> TRUE]

\* Subject expressions (`args.expr`): `kind` is the syntactic form of the
\* expression, `static` its type where the macro is expanded, `inst` its type
\* in the instantiation that runs, `val` the value it evaluates to.
Exprs ==
    { [src |-> "1 + 1", kind |-> "value", static |-> I32, inst |-> I32, val |-> "2"],
      [src |-> "NoDebugType", kind |-> "value", static |-> NoDebugType,
       inst |-> NoDebugType, val |-> "NoDebugType"],
      [src |-> "&n", kind |-> "ref", static |-> RefI32, inst |-> RefI32, val |-> "&n"],
      [src |-> "&mut my_object1", kind |-> "refmut", static |-> MutMyStruct1,
       inst |-> MutMyStruct1, val |-> "&mut my_object"],
      [src |-> "&mut my_object2", kind |-> "refmut", static |-> MutMyStruct2,
       inst |-> MutMyStruct2, val |-> "&mut my_object"],
      \* `v` in `fn f<T: Debug>(v: T)`, called as f(0i32)
      [src |-> "v", kind |-> "value", static |-> TypeParam({"Debug"}), inst |-> I32,
       val |-> "0"],
      \* `v` in `fn g<T>(v: T)`, called as g(0i32) and as g(NoDebugType)
      [src |-> "v", kind |-> "value", static |-> TypeParam({}), inst |-> I32,
       val |-> "0"],
      [src |-> "v", kind |-> "value", static |-> TypeParam({}), inst |-> NoDebugType,
       val |-> "NoDebugType"] }

\* The arms the invocations are built from, as in the crate documentation.
\* generics: the arm is `match<T> T` (its pattern is its own type variable);
\* bounds: the generic bounds and where clause of the arm;
\* body: "lit" (a literal), "x" (the subject, by name), "inc" (`x.inc();`),
\*       "empty" (`{}`).
ArmWhereFrom == [generics |-> TRUE, ty |-> "T", bounds |-> {"IntoI8"},
                 return_type |-> "i32", body |-> "lit", lit |-> "0"]
ArmDebug == [generics |-> TRUE, ty |-> "T", bounds |-> {"Debug"},
             return_type |-> "i32", body |-> "lit", lit |-> "1"]
ArmI32 == [generics |-> FALSE, ty |-> "i32", bounds |-> {},
           return_type |-> "i32", body |-> "lit", lit |-> "2"]
ArmI32Str == [generics |-> FALSE, ty |-> "i32", bounds |-> {},
              return_type |-> "&'static str", body |-> "lit", lit |-> "x is a 32-bit integer!"]
ArmI32X == [generics |-> FALSE, ty |-> "i32", bounds |-> {},
            return_type |-> "i32", body |-> "x", lit |-> None]
ArmIncrement == [generics |-> TRUE, ty |-> "T", bounds |-> {"Increment"},
                 return_type |-> None, body |-> "inc", lit |-> None]
ArmAny == [generics |-> TRUE, ty |-> "T", bounds |-> {},
           return_type |-> None, body |-> "empty", lit |-> None]

ArmPool == {ArmWhereFrom, ArmDebug, ArmI32, ArmI32Str, ArmI32X, ArmIncrement, ArmAny}

ArmLists == UNION { [1..n -> ArmPool] : n \in 1..MaxArms }

\* `Args`: the parsed invocation. param is the binding name (Some) or None.
ArgsSet == [param : {None, "x"}, expr : Exprs, arms : ArmLists]

----------------------------------------------------------------------------
VARIABLES
    args,        \* the parsed invocation given to spez_impl
    pc,          \* position: "gen", "names", "lookup", "resolved", "unresolved",
                 \*           "ambiguous", "built", "done", "panic"
    i,           \* the arm loop's index (0-based, as `enumerate` gives it)
    traits,      \* the trait/impl pairs emitted so far, in emission order
    block,       \* the emitted block's call expression (no tokens before it is emitted)
    name_error,  \* a body names a variable that is not in scope
    step,        \* number of reference layers the lookup has peeled
    selected,    \* index in `traits` of the impl the call resolved to, 0 if none
    slot,        \* the holder's Cell<Option<T>>: None or the value
    x,           \* what the running body has bound to the subject's name
    evals,       \* times the subject expression was evaluated
    takes,       \* times `take()` was called on the holder
    ran,         \* indices of the impls whose `spez` ran
    result,      \* the block's value
    obj0,        \* field of `my_object` before the block
    obj          \* field of `my_object`

vars == <<args, pc, i, traits, block, name_error, step, selected, slot, x,
          evals, takes, ran, result, obj0, obj>>

----------------------------------------------------------------------------
(* spez_impl: the code generator.                                          *)

\* fn refs(n, is_mutable): n reference tokens, all `&` or all `&mut`.
refs(n, is_mutable) == [k \in 1..n |-> IF ~is_mutable THEN "&" ELSE "&mut"]

\* Variant of ParamDef: the take is emitted whether or not a name was given.
ParamDefAlwaysTake(a) == [stmts |-> <<"take">>, bind |-> a.param]

\* param_def: the statements that bind the subject's name in a body;
\* `let mut #param = self.0.take().unwrap();` with a name, nothing without.
ParamDef(a) ==
    IF a.param # None THEN [stmts |-> <<"take">>, bind |-> a.param]
                      ELSE [stmts |-> <<>>, bind |-> None]

\* Variant of IsMutable: any reference expression counts, shared ones too.
IsReference(a) == a.expr.kind \in {"ref", "refmut"}

\* is_mutable: the subject expression is syntactically `&mut <expr>`.
IsMutable(a) == a.expr.kind = "refmut"

\* Decimal digits of n, as `format!("{}", n)` writes them.
RECURSIVE Digits(_)
Digits(n) ==
    LET digit(d) == <<"0", "1", "2", "3", "4", "5", "6", "7", "8", "9">>[d + 1] IN
    IF n < 10 THEN <<digit(n)>> ELSE Digits(n \div 10) \o <<digit(n % 10)>>

\* Variant of MatchName: the index is left out of the trait's name.
MatchNameNoIndex(idx) == <<"Match">>

\* format!("Match{}", i + 1)
MatchName(idx) == <<"Match">> \o Digits(idx + 1)

\* The name of the holder struct in the emitted block.
HolderName == <<"Match">>

\* Variants of ArmDepth: the depth grows with the index; one layer too many.
ArmDepthReversed(n_arms, idx) == idx
ArmDepthOffByOne(n_arms, idx) == n_arms - idx

\* n_arms - i - 1: the number of reference layers of arm i's impl.
ArmDepth(n_arms, idx) == n_arms - idx - 1

\* Variant of ReturnType: the declared type is dropped.
ReturnTypeUnit(arm) == Unit

\* return_type: the declared one, or `()`.
ReturnType(arm) == IF arm.return_type # None THEN arm.return_type ELSE Unit

\* The trait/impl pair emitted for the arm at 0-based index idx:
\*   trait #name { type Return; fn spez(&self) -> Self::Return; }
\*   impl #generics #name for #refs Match<#ty> #where_clause { ... }
Impl(a, idx) ==
    LET arm == a.arms[idx + 1] IN
    [ name      |-> MatchName(idx),
      self_recv |-> <<"&">>,
      generics  |-> arm.generics,
      refs      |-> refs(ArmDepth(Len(a.arms), idx), IsMutable(a)),
      ty        |-> arm.ty,
      bounds    |-> arm.bounds,
      Return    |-> ReturnType(arm),
      param_def |-> ParamDef(a),
      body      |-> arm.body,
      lit       |-> arm.lit ]

\* Variant of CallExpr: the subject expression is spliced in twice.
CallExprTwice(a) ==
    [ refs   |-> refs(Len(a.arms), a.expr.kind = "refmut"),
      holder |-> <<"Match">>,
      exprs  |-> <<a.expr, a.expr>> ]

\* The call expression of the emitted block:
\*   (#refs Match(core::cell::Cell::new(Some(#expr)))).spez()
CallExpr(a) ==
    [ refs   |-> refs(Len(a.arms), IsMutable(a)),
      holder |-> HolderName,
      exprs  |-> <<a.expr>> ]

\* Nothing emitted yet.
NoTokens == [refs |-> <<>>, holder |-> <<>>, exprs |-> <<>>]

Init ==
    /\ args \in ArgsSet
    /\ pc = "gen"
    /\ i = 0
    /\ traits = <<>>
    /\ block = NoTokens
    /\ name_error = FALSE
    /\ step = 0
    /\ selected = 0
    /\ slot = None
    /\ x = None
    /\ evals = 0
    /\ takes = 0
    /\ ran = <<>>
    /\ result = None
    /\ obj0 \in 0..MaxObj
    /\ obj = obj0

\* One iteration of `for (i, arm) in args.arms.into_iter().enumerate()`.
ArmLoop ==
    /\ pc = "gen"
    /\ i < Len(args.arms)
    /\ traits' = Append(traits, Impl(args, i))
    /\ i' = i + 1
    /\ UNCHANGED <<args, pc, block, name_error, step, selected, slot, x, evals,
                   takes, ran, result, obj0, obj>>

\* The loop is over: the final quote! emits the block.
Emit ==
    /\ pc = "gen"
    /\ i = Len(args.arms)
    /\ block' = CallExpr(args)
    /\ pc' = "names"
    /\ UNCHANGED <<args, i, traits, name_error, step, selected, slot, x, evals,
                   takes, ran, result, obj0, obj>>

----------------------------------------------------------------------------
(* Compilation of the emitted block: names, then the `.spez()` call.       *)

\* The variables a body names.
BodyNames(impl) == IF impl.body \in {"x", "inc"} THEN {"x"} ELSE {}

\* The variables in scope in the body of `fn spez(&self)` of an impl: a
\* method of an impl sees no local of the code around the block, only what
\* param_def binds.
Scope(impl) == {impl.param_def.bind} \ {None}

\* The impl `impl #generics #name for #refs Match<#ty> #where_clause` exists
\* for the holder of a subject of type t: `#ty` unifies with t and the
\* generic bounds and where clause hold of it. A type parameter of the
\* enclosing function is equal to no concrete type and has the traits of its
\* declared bounds only.
Applies(arm, t) ==
    IF arm.generics THEN arm.bounds \subseteq t.traits
                    ELSE ~t.abstract /\ arm.ty = t.name

\* Variant of Applicable: resolution on the type of the instantiation.
ApplicableAtInst(arm, e) == Applies(arm, e.inst)

\* The type the call is resolved on is the subject's type where the block is
\* expanded.
Applicable(arm, e) == Applies(arm, e.static)

\* The receiver type of `spez` in an impl: `&self` of `impl .. for #refs Match<..>`.
MethodReceiver(impl) == impl.self_recv \o impl.refs

\* The call's receiver type after k dereferences.
Peel(call, k) == SubSeq(call.refs, k + 1, Len(call.refs))

\* The receiver types tried at one step: by value, `&`-autoref, `&mut`-autoref.
Adjustments(u) == << u, <<"&">> \o u, <<"&mut">> \o u >>

\* Variant of Candidates: the impl's pattern and where clause are not checked.
CandidatesAnyImpl(impls, recv, e) ==
    { j \in 1..Len(impls) : impls[j].self_recv \o impls[j].refs = recv }

\* The impls whose method has receiver type recv and that exist for the subject.
Candidates(impls, recv, e) ==
    { j \in 1..Len(impls) : MethodReceiver(impls[j]) = recv /\ Applicable(impls[j], e) }

\* The candidates of the first adjustment of step k that has any.
Probe(impls, call, k) ==
    LET adj == Adjustments(Peel(call, k))
        c(n) == Candidates(impls, adj[n], call.exprs[1])
    IN  IF c(1) # {} THEN c(1) ELSE IF c(2) # {} THEN c(2) ELSE c(3)

\* Name resolution of the bodies of all the impls.
ResolveNames ==
    /\ pc = "names"
    /\ name_error' = (\E j \in 1..Len(traits) : ~(BodyNames(traits[j]) \subseteq Scope(traits[j])))
    /\ pc' = "lookup"
    /\ UNCHANGED <<args, i, traits, block, step, selected, slot, x, evals, takes,
                   ran, result, obj0, obj>>

\* One step of the method lookup of `.spez()`.
Lookup ==
    /\ pc = "lookup"
    /\ LET c == Probe(traits, block, step) IN
       IF c = {}
       THEN IF step < Len(block.refs)
            THEN step' = step + 1 /\ UNCHANGED <<pc, selected>>
            ELSE pc' = "unresolved" /\ UNCHANGED <<step, selected>>
       ELSE IF Cardinality(c) = 1
            THEN /\ selected' = CHOOSE j \in c : TRUE
                 /\ pc' = "resolved"
                 /\ UNCHANGED step
            ELSE pc' = "ambiguous" /\ UNCHANGED <<step, selected>>
    /\ UNCHANGED <<args, i, traits, block, name_error, slot, x, evals, takes, ran,
                   result, obj0, obj>>

----------------------------------------------------------------------------
(* Execution of the emitted block.                                         *)

\* Variant of HolderValue: a referenced object is copied into the holder.
HolderValueCopy(e) == IF e.kind \in {"ref", "refmut"} THEN "copy" ELSE e.val

\* What `Some(#expr)` stores: the value the expression evaluates to.
HolderValue(e) == e.val

\* Match(core::cell::Cell::new(Some(#expr))): each occurrence of the subject
\* expression is evaluated and the holder is built.
Construct ==
    /\ pc = "resolved"
    /\ ~name_error
    /\ evals' = evals + Len(block.exprs)
    /\ slot' = HolderValue(block.exprs[1])
    /\ pc' = "built"
    /\ UNCHANGED <<args, i, traits, block, name_error, step, selected, x, takes,
                   ran, result, obj0, obj>>

\* param_def run on the holder: each `self.0.take().unwrap()` empties the
\* slot and panics on an empty one.
RECURSIVE RunParamDef(_, _)
RunParamDef(stmts, st) ==
    IF stmts = <<>> \/ st.panicked THEN st
    ELSE RunParamDef(Tail(stmts),
            IF st.slot = None
            THEN [st EXCEPT !.takes = @ + 1, !.panicked = TRUE]
            ELSE [st EXCEPT !.takes = @ + 1, !.x = st.slot, !.slot = None])

\* The body of an arm, run with the subject bound to xv.
RunBody(impl, xv, o) ==
    CASE impl.body = "lit"   -> [result |-> impl.lit, obj |-> o]
      [] impl.body = "x"     -> [result |-> xv, obj |-> o]
      [] impl.body = "inc"   -> [result |-> Unit,
                                 obj |-> IF xv = "&mut my_object" THEN o + 1 ELSE o]
      [] impl.body = "empty" -> [result |-> Unit, obj |-> o]

\* fn spez(&self) of the selected impl: #param_def, then #body.
Spez ==
    /\ pc = "built"
    /\ LET impl == traits[selected]
           st == RunParamDef(impl.param_def.stmts,
                             [slot |-> slot, x |-> None, takes |-> 0, panicked |-> FALSE])
           out == RunBody(impl, st.x, obj)
       IN  /\ slot' = st.slot
           /\ takes' = takes + st.takes
           /\ x' = st.x
           /\ ran' = Append(ran, selected)
           /\ IF st.panicked
              THEN pc' = "panic" /\ UNCHANGED <<result, obj>>
              ELSE pc' = "done" /\ result' = out.result /\ obj' = out.obj
    /\ UNCHANGED <<args, i, traits, block, name_error, step, selected, evals, obj0>>

\* The static type of the block: `Self::Return` of the impl the call resolved to.
ResultType == IF selected = 0 THEN None ELSE traits[selected].Return

Next == ArmLoop \/ Emit \/ ResolveNames \/ Lookup \/ Construct \/ Spez

Spec == Init /\ [][Next]_vars

----------------------------------------------------------------------------
(* Properties.                                                             *)

Min(S) == CHOOSE m \in S : \A n \in S : m <= n
NArms == Len(args.arms)
\* The arms (1-based positions) that are applicable to the subject's type.
ApplicableArms == { j \in 1..NArms : Applies(args.arms[j], args.expr.static) }
LookupOver == pc \in {"resolved", "unresolved", "ambiguous", "built", "done", "panic"}
Emitted == block # NoTokens

\* C1: first applicable arm wins. The lookup of `.spez()` never selects an
\* impl other than that of the lowest-index applicable arm, for `&` and for
\* `&mut` layers; it ends unresolved only when no arm is applicable (an arm
\* that is not applicable does not stop it) and never in an ambiguity. The
\* documented example (i32 against [T where i8: From<T>], [T: Debug], [i32])
\* yields 1.
C1_FirstApplicableWins ==
    /\ selected # 0 => (ApplicableArms # {} /\ selected = Min(ApplicableArms))
    /\ pc = "unresolved" => ApplicableArms = {}
    /\ pc # "ambiguous"
    /\ (LookupOver /\ ApplicableArms # {}) => selected = Min(ApplicableArms)
    /\ (pc = "done" /\ args.arms = <<ArmWhereFrom, ArmDebug, ArmI32>>
          /\ args.expr.static = I32) => result = "1"

\* A `&mut` block in which the first arm was skipped and two later arms are
\* applicable: the earlier of the two is selected.
C1_Witness ==
    /\ pc = "resolved"
    /\ IsMutable(args)
    /\ NArms = 3
    /\ ApplicableArms = {2, 3}
    /\ selected = 2

\* C2 as stated: the selected arm's method takes the value out of the holder
\* exactly once, with or without a binding name.
C2_TakeExactlyOnce == pc = "done" => takes = 1

\* C2 amended: with a binding name the selected arm's method takes the value
\* exactly once and the take yields the value; without a binding name no take
\* is emitted and the value stays in the holder. In both cases only the
\* selected arm's body runs and no take observes an empty slot.
C2_TakeOnceWhenNamed ==
    /\ pc # "panic"
    /\ takes <= 1
    /\ Len(ran) <= 1
    /\ pc = "done" =>
         /\ ran = <<selected>>
         /\ IF args.param # None
            THEN takes = 1 /\ x = args.expr.val /\ slot = None
            ELSE takes = 0 /\ x = None /\ slot = args.expr.val

\* A named block of three arms has run: one take, which yielded the value.
C2_Witness ==
    /\ pc = "done"
    /\ args.param # None
    /\ NArms = 3
    /\ takes = 1
    /\ x = args.expr.val

C4_NoMatchingArm ==
    ApplicableArms = {} =>
        /\ pc \in {"gen", "names", "lookup", "unresolved"}
        /\ selected = 0 /\ evals = 0 /\ takes = 0 /\ ran = <<>> /\ slot = None
        /\ pc # "gen" => (Emitted /\ Len(traits) = NArms)
        /\ pc = "unresolved" => (step = NArms /\ Peel(block, step) = <<>>)

\* A three-arm invocation with no applicable arm ended unresolved.
C4_Witness ==
    /\ pc = "unresolved"
    /\ NArms = 3
    /\ ApplicableArms = {}
    /\ Emitted

\* C5: with `x = &mut obj` as subject, once the block is done the object is
\* changed exactly as the selected arm's body changes it through the name:
\* incremented by one by the `T: Increment` arm, unchanged by the others; in
\* the documented invocation my_object1 is incremented and my_object2 is not.
C5_MutationThroughReference ==
    /\ pc # "done" => obj = obj0
    /\ (pc = "done" /\ args.expr.kind = "refmut" /\ args.param # None) =>
         /\ obj = (IF args.arms[selected].body = "inc" THEN obj0 + 1 ELSE obj0)
         /\ args.arms = <<ArmIncrement, ArmAny>> =>
              obj = (IF args.expr.src = "&mut my_object1" THEN obj0 + 1 ELSE obj0)

\* The documented invocation on my_object1 is done and the field went up by one.
C5_Witness ==
    /\ pc = "done"
    /\ args.param = "x"
    /\ args.expr.src = "&mut my_object1"
    /\ args.arms = <<ArmIncrement, ArmAny>>
    /\ obj = obj0 + 1

\* C6: the block's value and static result type are those of the selected arm
\* alone: `()` for an arm without `-> Type`, R for an arm with `-> R`, whatever
\* the result types of the other arms.
C6_ResultTypeOfSelectedArm ==
    /\ selected # 0 =>
         ResultType = (IF args.arms[selected].return_type = None
                       THEN "()" ELSE args.arms[selected].return_type)
    /\ \A j \in 1..Len(traits) :
         traits[j].Return = (IF args.arms[j].return_type = None
                             THEN "()" ELSE args.arms[j].return_type)
    /\ pc = "done" =>
         result = (CASE args.arms[selected].body = "lit" -> args.arms[selected].lit
                     [] args.arms[selected].body = "x" -> args.expr.val
                     [] OTHER -> "()")

\* Three arms with three different result types; the selected one declares
\* `-> &'static str` and the block has that type and that arm's value.
C6_Witness ==
    /\ pc = "done"
    /\ args.arms = <<ArmIncrement, ArmI32Str, ArmI32>>
    /\ selected = 2
    /\ ResultType = "&'static str"
    /\ result = "x is a 32-bit integer!"

\* C7: when the subject's static type is a type parameter of an enclosing
\* generic function, the selected arm is a function of the declared bounds and
\* the arm list alone: the first generic arm whose bounds are among the declared
\* ones, whatever the type of the instantiation; so all instantiations select
\* the same arm. With `T: Debug` and arms [i32], [T: Debug], [T] the second arm
\* is selected when the function is instantiated with i32.
C7_GenericContextByBounds ==
    args.expr.static.abstract =>
        LET byBounds == { j \in 1..NArms :
                            /\ args.arms[j].generics
                            /\ args.arms[j].bounds \subseteq args.expr.static.traits }
        IN  /\ selected # 0 => (byBounds # {} /\ selected = Min(byBounds))
            /\ pc = "unresolved" => byBounds = {}
            /\ LookupOver => selected = (IF byBounds = {} THEN 0 ELSE Min(byBounds))
            /\ (LookupOver /\ args.expr.static.traits = {"Debug"}
                  /\ args.arms = <<ArmI32Str, ArmDebug, ArmAny>>) => selected = 2

\* f<T: Debug> instantiated with i32: the `i32` arm is listed first and the
\* `T: Debug` arm is selected.
C7_Witness ==
    /\ pc = "done"
    /\ args.expr.static = TypeParam({"Debug"})
    /\ args.expr.inst = I32
    /\ args.arms = <<ArmI32Str, ArmDebug, ArmAny>>
    /\ selected = 2

\* C8: the generator emits one trait/impl pair per arm, in declaration order
\* (the j-th pair carries the j-th arm's pattern, bounds and body; equal
\* patterns are kept apart), the impl of the arm at 0-based index i is for the
\* holder behind exactly N - i - 1 reference layers, and the one call expression
\* wraps the holder in exactly N layers.
C8_DepthEncoding ==
    /\ Len(traits) = i
    /\ i <= NArms
    /\ \A j \in 1..Len(traits) :
         /\ traits[j].ty = args.arms[j].ty
         /\ traits[j].generics = args.arms[j].generics
         /\ traits[j].bounds = args.arms[j].bounds
         /\ traits[j].body = args.arms[j].body
         /\ traits[j].lit = args.arms[j].lit
         /\ Len(traits[j].refs) = NArms - (j - 1) - 1
    /\ Emitted =>
         /\ Len(traits) = NArms
         /\ Len(block.refs) = NArms
         /\ Len(block.exprs) = 1

\* A block of three arms, two of them with the same pattern, is emitted.
C8_Witness ==
    /\ Emitted
    /\ NArms = 3
    /\ args.arms[1] = args.arms[3]
    /\ Len(traits) = 3
    /\ Len(traits[1].refs) = 2
    /\ Len(traits[3].refs) = 0

\* C9: every reference layer of every impl and of the call expression is
\* `&mut` when the subject expression is a `&mut` reference expression and `&`
\* otherwise (shared-reference and non-reference subjects).
C9_ReferenceKindConsistency ==
    LET kind == IF args.expr.kind = "refmut" THEN "&mut" ELSE "&" IN
    /\ \A j \in 1..Len(traits) : \A k \in 1..Len(traits[j].refs) : traits[j].refs[k] = kind
    /\ \A k \in 1..Len(block.refs) : block.refs[k] = kind

\* A block for a shared-reference subject with layers in impls and call.
C9_Witness ==
    /\ Emitted
    /\ args.expr.kind = "ref"
    /\ NArms = 3
    /\ traits[1].refs = <<"&", "&">>
    /\ block.refs = <<"&", "&", "&">>

\* C10: the impls sit at pairwise distinct depths, each in 0..N-1, under
\* pairwise distinct trait names, none the holder's name; so every receiver
\* type the lookup tries is the receiver type of at most one impl, and the
\* lookup never ends in an ambiguity.
C10_NoAmbiguity ==
    /\ \A j \in 1..Len(traits) :
         /\ ArmDepth(NArms, j - 1) \in 0..(NArms - 1)
         /\ Len(traits[j].refs) = ArmDepth(NArms, j - 1)
         /\ traits[j].name # HolderName
         /\ traits[j].name # block.holder
         /\ \A k \in 1..Len(traits) :
              j # k => /\ traits[j].name # traits[k].name
                       /\ Len(traits[j].refs) # Len(traits[k].refs)
    /\ Emitted =>
         \A k \in 0..Len(block.refs) : \A n \in 1..3 :
            Cardinality({ j \in 1..Len(traits) :
                            MethodReceiver(traits[j]) = Adjustments(Peel(block, k))[n] }) <= 1
    /\ pc # "ambiguous"

\* The lookup of a three-arm block in which every arm is applicable is over.
C10_Witness ==
    /\ LookupOver
    /\ NArms = 3
    /\ ApplicableArms = {1, 2, 3}
    /\ selected = 1

====
